---- MODULE Spec2Model ----
(***************************************************************************)
(* Model of FinanceAdvisorSystem (src/App.py): the analyze_finances        *)
(* facade, the in-memory session store it drives, the three-stage          *)
(* SequentialAgent pipeline, the preprocessors, parse_json_safely and the  *)
(* fallback synthesizer _create_default_results.                           *)
(*                                                                         *)
(* Python values are tagged records ([tag |-> "None"], [tag |-> "str",..]) *)
(* so that values of different Python types can be compared.  Money is an  *)
(* integer; a quotient or a product with a decimal constant is an exact    *)
(* rational [n, d] in lowest terms (floating-point rounding is not         *)
(* modelled).  A Python dict is a sequence of [k, v] entries with distinct *)
(* keys, in insertion order.                                               *)
(***************************************************************************)
EXTENDS Integers, Sequences, FiniteSets, TLC

(***************************************************************************)
(* Bounds of the model.                                                    *)
(***************************************************************************)
MaxClock == 3           \* the wall clock advances at most this many ticks
TicksPerSecond == 2     \* clock ticks within one wall-clock second

MaxEntries == 2         \* entries of a generated manual_expenses mapping
MaxTxns == 2            \* length of a generated transaction list
MaxDebts == 2           \* length of a generated debt list

\* the two analyze_finances calls that may overlap on one system
Runs == {1, 2}

(***************************************************************************)
(* Program constants.                                                      *)
(***************************************************************************)
PayoffMonths == 24      \* months_to_payoff and divisor of monthly_payment
EmergencyMonths == 6    \* emergency fund = 6 x total_expenses

OutputKeys == <<"budget_analysis", "savings_strategy", "debt_reduction">>
StageNames == <<"BudgetAnalysisAgent", "SavingsStrategyAgent", "DebtReductionAgent">>
CoordinatorName == "FinanceCoordinatorAgent"
NumStages == Len(OutputKeys)

(***************************************************************************)
(* Arithmetic helpers.                                                     *)
(***************************************************************************)
Abs(i) == IF i < 0 THEN -i ELSE i

RECURSIVE Gcd(_, _)
Gcd(a, b) == IF b = 0 THEN a ELSE Gcd(b, a % b)

\* the exact value n / d, d > 0, in lowest terms
Rat(n, d) ==
    LET g == Gcd(Abs(n), d)
    IN  IF n = 0 THEN [n |-> 0, d |-> 1] ELSE [n |-> n \div g, d |-> d \div g]

RatAdd(p, q) == Rat(p.n * q.d + q.n * p.d, p.d * q.d)

(***************************************************************************)
(* Python values.                                                          *)
(***************************************************************************)
PyNone == [tag |-> "None"]
Missing == [tag |-> "missing"]          \* the key is not in the mapping
PyInt(i) == [tag |-> "int", n |-> i]
PyStr(s) == [tag |-> "str", s |-> s]
PyList(s) == [tag |-> "list", items |-> s]
PyDict(s) == [tag |-> "dict", items |-> s]

\* Python truthiness (the `if value`, `not expenses` tests)
Truthy(v) ==
    CASE v.tag = "None" -> FALSE
      [] v.tag = "missing" -> FALSE
      [] v.tag = "int" -> v.n # 0
      [] v.tag = "str" -> v.s # ""
      [] v.tag = "list" -> v.items # <<>>
      [] v.tag = "dict" -> v.items # <<>>
      [] OTHER -> TRUE

\* mapping.get(key, default) where  v  is what the mapping holds under key
GetOr(v, default) == IF v.tag = "missing" THEN default ELSE v

(***************************************************************************)
(* dict operations on entry sequences.                                     *)
(***************************************************************************)
DictHas(items, key) == \E i \in 1..Len(items) : items[i].k = key

DictGet(items, key, default) ==
    IF DictHas(items, key)
    THEN items[CHOOSE i \in 1..Len(items) : items[i].k = key].v
    ELSE default

\* items[key] = val : an existing key keeps its position
DictSet(items, key, val) ==
    IF DictHas(items, key)
    THEN [i \in 1..Len(items) |->
            IF items[i].k = key THEN [k |-> key, v |-> val] ELSE items[i]]
    ELSE Append(items, [k |-> key, v |-> val])

RECURSIVE SumValues(_)
SumValues(items) ==
    IF items = <<>> THEN 0 ELSE Head(items).v + SumValues(Tail(items))

(***************************************************************************)
(* FinancialInput values (the financial_data argument).                    *)
(***************************************************************************)
Txn(cat, amt, date) == [Category |-> cat, Amount |-> amt, Date |-> date]

DebtRec(name, amt) ==
    [name |-> name, amount |-> amt, interest_rate |-> 20, min_payment |-> 50]

Entry(key, val) == [k |-> key, v |-> val]

Input(income, txns, manual, debts) ==
    [monthly_income |-> income, dependants |-> PyInt(0),
     transactions |-> txns, manual_expenses |-> manual, debts |-> debts]

\* the scenario of the specification: manual expenses, no transactions key
ExampleInput ==
    Input(PyInt(3000), Missing,
          PyDict(<<Entry("Housing", 1200), Entry("Food", 300)>>),
          PyList(<<DebtRec("Card", PyInt(2000))>>))

\* what main() builds for "Enter Manually": transactions is None
UiManualInput ==
    Input(PyInt(3000), PyNone,
          PyDict(<<Entry("Housing", 1200), Entry("Food", 300)>>),
          PyList(<<>>))

\* what main() builds for an uploaded CSV: manual_expenses is None, the
\* dates already rewritten by parse_csv_transactions (line 640)
UiCsvInput ==
    Input(PyInt(2000),
          PyList(<<Txn(PyStr("Food"), PyInt(40), PyStr("2024-01-05")),
                   Txn(PyStr("Housing"), PyInt(900), PyStr("2024-01-05")),
                   Txn(PyStr("Food"), PyInt(60), PyStr("2024-01-07"))>>),
          PyNone,
          PyList(<<DebtRec("Loan", PyInt(1200)), DebtRec("Card", Missing)>>))

\* what main() builds when neither source is given
UiNoSourceInput == Input(PyInt(1000), PyNone, PyNone, PyList(<<>>))

\* an uploaded CSV whose Date column holds text that is not a date
BadDateInput ==
    Input(PyInt(2000),
          PyList(<<Txn(PyStr("Food"), PyInt(40), PyStr("not a date"))>>),
          PyNone, PyList(<<>>))

\* every key absent
EmptyInput == Input(Missing, Missing, Missing, Missing)

\* a malformed input: negative income, negative expense, negative debt
NegativeInput ==
    Input(PyInt(-500), Missing, PyDict(<<Entry("Food", -20)>>),
          PyList(<<DebtRec("Card", PyInt(-100))>>))

Inputs ==
    {ExampleInput, UiManualInput, UiCsvInput, UiNoSourceInput, BadDateInput,
     EmptyInput, NegativeInput}

\* the inputs of the overlapping calls
ConcurrentInputs == {ExampleInput, UiCsvInput, UiNoSourceInput, BadDateInput}

\* generated inputs for the fallback synthesizer: each expense source
\* missing, None, empty or filled; amounts negative, zero and positive;
\* transactions without a category or an amount; debts without an amount
SeqsUpTo(S, n) == UNION {[1..k -> S] : k \in 0..n}

DistinctKeys(items) ==
    \A i, j \in 1..Len(items) : items[i].k = items[j].k => i = j

GenManual ==
    {Missing, PyNone}
    \cup {PyDict(items) :
            items \in {t \in SeqsUpTo({Entry(c, a) : c \in {"Housing", "Food"},
                                                     a \in {-100, 0, 300}},
                                      MaxEntries) : DistinctKeys(t)}}

GenTransactions ==
    {Missing, PyNone}
    \cup {PyList(txns) :
            txns \in SeqsUpTo({Txn(c, a, PyStr("2024-01-05")) :
                                  c \in {Missing, PyStr("Food"), PyStr("Housing")},
                                  a \in {Missing, PyInt(-40), PyInt(60)}},
                              MaxTxns)}

GenDebts ==
    {Missing}
    \cup {PyList(debts) :
            debts \in SeqsUpTo({DebtRec("Card", a) : a \in {Missing, PyInt(1200)}},
                               MaxDebts)}

\* generated inputs for the preprocessors: transactions whose dates are
\* absent, in ISO form, in month/day/year form or not dates at all
GenDatedTransactions ==
    {Missing, PyNone}
    \cup {PyList(txns) :
            txns \in SeqsUpTo({Txn(c, a, d) :
                                  c \in {Missing, PyStr("Food"), PyStr("Housing")},
                                  a \in {Missing, PyInt(60)},
                                  d \in {Missing, PyStr("2024-01-05"),
                                         PyStr("01/05/2024"), PyStr("not a date")}},
                              MaxTxns)}

GenPreprocessInputs ==
    {Input(PyInt(3000), txns, manual, PyList(<<>>)) :
        txns \in GenDatedTransactions, manual \in GenManual}

GenInputs ==
    {Input(income, txns, manual, debts) :
        income \in {Missing, PyInt(3000)}, txns \in GenTransactions,
        manual \in GenManual, debts \in GenDebts}

(***************************************************************************)
(* _create_default_results: the fallback synthesizer.                      *)
(***************************************************************************)
\* AggregateTransactions leaving out the rows that have no Category, as a
\* groupby does
RECURSIVE AggregateTransactionsDropNa(_, _)
AggregateTransactionsDropNa(txns, expenses) ==
    IF txns = <<>> THEN expenses
    ELSE IF Head(txns).Category.tag = "missing"
    THEN AggregateTransactionsDropNa(Tail(txns), expenses)
    ELSE LET category == Head(txns).Category.s
             amount == GetOr(Head(txns).Amount, PyInt(0)).n
         IN  AggregateTransactionsDropNa(Tail(txns),
                 DictSet(expenses, category, DictGet(expenses, category, 0) + amount))

\* the loop of lines 413-416 over the transactions
RECURSIVE AggregateTransactions(_, _)
AggregateTransactions(txns, expenses) ==
    IF txns = <<>> THEN expenses
    ELSE LET category == GetOr(Head(txns).Category, PyStr("Uncategorized")).s
             amount == GetOr(Head(txns).Amount, PyInt(0)).n
         IN  AggregateTransactions(Tail(txns),
                 DictSet(expenses, category, DictGet(expenses, category, 0) + amount))

\* the expense mapping of lines 409-416
ResolveExpenses(fd) ==
    LET expenses == GetOr(fd.manual_expenses, PyDict(<<>>))
    IN  IF ~Truthy(expenses) /\ Truthy(fd.transactions)
        THEN PyDict(AggregateTransactions(fd.transactions.items, <<>>))
        ELSE expenses

RECURSIVE SumDebts(_)
SumDebts(debts) ==
    IF debts = <<>> THEN 0
    ELSE GetOr(Head(debts).amount, PyInt(0)).n + SumDebts(Tail(debts))

\* Percentage without the factor 100: a fraction instead of a percentage
PercentageUnscaled(amt, total) == IF total > 0 THEN Rat(amt, total) ELSE Rat(0, 1)

\* Percentage guarded by  total_expenses != 0  instead of  > 0
PercentageNonzeroGuard(amt, total) ==
    IF total > 0 THEN Rat(amt * 100, total)
    ELSE IF total < 0 THEN Rat((0 - amt) * 100, 0 - total)
    ELSE Rat(0, 1)

\* line 425: (amt / total_expenses * 100) if total_expenses > 0 else 0
Percentage(amt, total) == IF total > 0 THEN Rat(amt * 100, total) ELSE Rat(0, 1)

Artifact(key, content) ==
    [tag |-> "artifact", origin |-> "fallback", schema |-> key, body |-> content]

DefaultBudget(income, expenses) ==
    LET total == SumValues(expenses)
    IN  [total_expenses |-> total,
         monthly_income |-> income,
         spending_categories |->
            [i \in 1..Len(expenses) |->
                [category |-> expenses[i].k, amount |-> expenses[i].v,
                 percentage |-> Percentage(expenses[i].v, total)]],
         recommendations |->
            <<[category |-> "General",
               recommendation |-> "Consider reviewing your expenses carefully",
               potential_savings |-> Rat(total, 10)]>>]

\* DefaultSavings with the Emergency Fund recommendation taken as 10% of
\* the income instead of 10% of the expenses
DefaultSavingsFromIncome(income, expenses) ==
    LET total == SumValues(expenses)
    IN  [emergency_fund |->
            [recommended_amount |-> total * EmergencyMonths,
             current_amount |-> 0,
             current_status |-> "Not started"],
         recommendations |->
            <<[category |-> "Emergency Fund", amount |-> Rat(income, 10),
               rationale |-> "Build emergency fund first"],
              [category |-> "Retirement", amount |-> Rat(income * 15, 100),
               rationale |-> "Long-term savings"]>>,
         automation_techniques |->
            <<[name |-> "Automatic Transfer",
               description |-> "Set up automatic transfers on payday"]>>]

\* lines 432-445
DefaultSavings(income, expenses) ==
    LET total == SumValues(expenses)
    IN  [emergency_fund |->
            [recommended_amount |-> total * EmergencyMonths,
             current_amount |-> 0,
             current_status |-> "Not started"],
         recommendations |->
            <<[category |-> "Emergency Fund", amount |-> Rat(total, 10),
               rationale |-> "Build emergency fund first"],
              [category |-> "Retirement", amount |-> Rat(income * 15, 100),
               rationale |-> "Long-term savings"]>>,
         automation_techniques |->
            <<[name |-> "Automatic Transfer",
               description |-> "Set up automatic transfers on payday"]>>]

\* a reference to one of the caller's objects, and the value it stands for
\* given the objects' contents
Ref(name) == [tag |-> "ref", obj |-> name]
Deref(v, objects) == IF v.tag = "ref" THEN objects[v.obj] ELSE v

\* line 448: financial_data.get("debts", []) is the caller's list object
\* itself, or a new empty list when there is no debts key
DebtsObject(fd) == IF fd.debts.tag = "missing" THEN PyList(<<>>) ELSE Ref("debts")

\* DefaultDebt with the snowball plan a copy of the avalanche plan
DefaultDebtCopiedPlan(debts, debtsObj) ==
    LET total == SumDebts(debts)
        plan == [total_interest |-> Rat(total * 20, 100),
                 months_to_payoff |-> PayoffMonths,
                 monthly_payment |-> Rat(total, PayoffMonths)]
    IN  [total_debt |-> total,
         debts |-> debtsObj,
         payoff_plans |-> [avalanche |-> plan, snowball |-> plan],
         recommendations |->
            <<[title |-> "Increase Payments",
               description |-> "Increase your monthly payments",
               impact |-> "Reduces total interest paid"]>>]

DefaultDebt(debts, debtsObj) ==
    LET total == SumDebts(debts)
    IN  [total_debt |-> total,
         debts |-> debtsObj,
         payoff_plans |->
            [avalanche |-> [total_interest |-> Rat(total * 20, 100),
                            months_to_payoff |-> PayoffMonths,
                            monthly_payment |-> Rat(total, PayoffMonths)],
             snowball |-> [total_interest |-> Rat(total * 25, 100),
                           months_to_payoff |-> PayoffMonths,
                           monthly_payment |-> Rat(total, PayoffMonths)]],
         recommendations |->
            <<[title |-> "Increase Payments",
               description |-> "Increase your monthly payments",
               impact |-> "Reduces total interest paid"]>>]

\* the outcome of a call: a value, or the exception it raises
Ok(v) == [ok |-> TRUE, value |-> v]
Raise(e) == [ok |-> FALSE, error |-> e]

CreateDefaultResults(fd) ==
    LET income == GetOr(fd.monthly_income, PyInt(0)).n
        expenses == ResolveExpenses(fd)
        debts == GetOr(fd.debts, PyList(<<>>)).items
    IN  IF expenses.tag # "dict"
        THEN Raise("AttributeError")    \* None has no .values()
        ELSE Ok([budget_analysis |->
                    Artifact("budget_analysis", DefaultBudget(income, expenses.items)),
                 savings_strategy |->
                    Artifact("savings_strategy", DefaultSavings(income, expenses.items)),
                 debt_reduction |->
                    Artifact("debt_reduction", DefaultDebt(debts, DebtsObject(fd)))])

(***************************************************************************)
(* What the Reasoner may leave under a stage's output key, and             *)
(* parse_json_safely.                                                      *)
(***************************************************************************)
\* a structured object produced by a stage from the state seeded by run src;
\* it conforms to the schema named by  schema  ("other": to none of them)
ReasonerArtifact(schema, src) ==
    [tag |-> "artifact", origin |-> "reasoner", schema |-> schema, src |-> src]

\* a text value; "artifact-json" and "other-json" are the JSON encodings of
\* the two kinds of object above
ReasonerText(text, schema, src) ==
    [tag |-> "str", s |-> text, schema |-> schema, src |-> src]

JsonTexts == {"null", "{}", "5", "artifact-json", "other-json"}
PlainTexts == {"", "not json"}

\* json.loads: the decoded value, or JSONDecodeError
JsonLoads(data) ==
    CASE data.s = "null" -> Ok(PyNone)
      [] data.s = "{}" -> Ok(PyDict(<<>>))
      [] data.s = "5" -> Ok(PyInt(5))
      [] data.s = "artifact-json" -> Ok(ReasonerArtifact(data.schema, data.src))
      [] data.s = "other-json" -> Ok(ReasonerArtifact("other", data.src))
      [] OTHER -> Raise("JSONDecodeError")

\* ParseJsonSafely written as  json.loads(data) or default_value : a decoded
\* null, empty object or zero is replaced by the default
ParseJsonSafelyOrDefault(data, default_value) ==
    IF data.tag = "str"
    THEN IF JsonLoads(data).ok /\ Truthy(JsonLoads(data).value)
         THEN JsonLoads(data).value ELSE default_value
    ELSE data

\* lines 206-211
ParseJsonSafely(data, default_value) ==
    IF data.tag = "str"
    THEN IF JsonLoads(data).ok THEN JsonLoads(data).value ELSE default_value
    ELSE data

\* the values a stage can write under its key, by kind
WrittenValue(kind, key, src) ==
    CASE kind = "artifact" -> ReasonerArtifact(key, src)
      [] kind = "other" -> ReasonerArtifact("other", src)
      [] kind = "emptydict" -> PyDict(<<>>)
      [] OTHER -> ReasonerText(kind, key, src)

ArtifactOnly == {"artifact"}
AllKinds == {"artifact", "other", "emptydict"} \cup JsonTexts \cup PlainTexts

\* a value conforms to the schema of  key : a structured object of that schema
Conforms(v, key) == v.tag = "artifact" /\ v.schema = key

(***************************************************************************)
(* Session state and the preprocessors.                                    *)
(***************************************************************************)
\* initial_state of lines 323-329, with every other key absent
InitialState(fd) ==
    [monthly_income |-> GetOr(fd.monthly_income, PyInt(0)),
     dependants |-> GetOr(fd.dependants, PyInt(0)),
     transactions |-> GetOr(fd.transactions, PyList(<<>>)),
     manual_expenses |-> GetOr(fd.manual_expenses, PyDict(<<>>)),
     debts |-> GetOr(fd.debts, PyList(<<>>)),
     category_spending |-> Missing,
     total_spending |-> Missing,
     total_manual_spending |-> Missing,
     manual_category_spending |-> Missing,
     budget_analysis |-> Missing,
     savings_strategy |-> Missing,
     debt_reduction |-> Missing]

\* state.get(key)
StateGet(state, key) == GetOr(state[key], PyNone)

\* the categories in the order groupby sorts them
SortedCategories == <<"Food", "Housing", "Uncategorized">>

HasColumn(txns, col) == \E i \in 1..Len(txns) : txns[i][col].tag # "missing"

\* df[df.Category == cat]['Amount'].sum(): a missing amount is NaN, skipped
RECURSIVE SumAmountOf(_, _)
SumAmountOf(txns, cat) ==
    IF txns = <<>> THEN 0
    ELSE (IF Head(txns).Category = PyStr(cat)
          THEN GetOr(Head(txns).Amount, PyInt(0)).n ELSE 0)
         + SumAmountOf(Tail(txns), cat)

RECURSIVE SumAmounts(_)
SumAmounts(txns) ==
    IF txns = <<>> THEN 0
    ELSE GetOr(Head(txns).Amount, PyInt(0)).n + SumAmounts(Tail(txns))

\* df.groupby('Category')['Amount'].sum().to_dict(): sorted keys, rows
\* without a category dropped
RECURSIVE GroupBySum(_, _)
GroupBySum(txns, cats) ==
    IF cats = <<>> THEN <<>>
    ELSE (IF \E i \in 1..Len(txns) : txns[i].Category = PyStr(Head(cats))
          THEN <<Entry(Head(cats), SumAmountOf(txns, Head(cats)))>>
          ELSE <<>>)
         \o GroupBySum(txns, Tail(cats))

\* pd.to_datetime on one date text: the date it denotes (month first for
\* the slash form), None for text that is not a date
ToDatetime(text) ==
    CASE text = "2024-01-05" -> [year |-> 2024, month |-> 1, day |-> 5]
      [] text = "01/05/2024" -> [year |-> 2024, month |-> 1, day |-> 5]
      [] text = "2024-01-07" -> [year |-> 2024, month |-> 1, day |-> 7]
      [] OTHER -> PyNone

\* .dt.strftime('%Y-%m-%d') on one date
StrftimeYmd(date) ==
    CASE date = [year |-> 2024, month |-> 1, day |-> 5] -> "2024-01-05"
      [] date = [year |-> 2024, month |-> 1, day |-> 7] -> "2024-01-07"

\* line 390: the Date column of the local DataFrame after the conversion;
\* the rows of df are copies, session.state["transactions"] is not assigned
DataFrameWithDates(txns) ==
    [i \in 1..Len(txns) |->
        IF txns[i].Date.tag = "missing" THEN txns[i]
        ELSE [txns[i] EXCEPT !.Date = PyStr(StrftimeYmd(ToDatetime(@.s)))]]

DateForms == {"2024-01-05", "2024-01-07", "01/05/2024"}
ToDatetimeOk(txns) ==
    \A i \in 1..Len(txns) :
        txns[i].Date.tag = "missing" \/ txns[i].Date.s \in DateForms

\* PreprocessTransactions with df.to_dict('records') assigned back to
\* state["transactions"] after the date conversion
PreprocessTransactionsWritesBack(state) ==
    LET transactions == StateGet(state, "transactions")
    IN  IF ~Truthy(transactions) THEN Ok(state)
        ELSE IF HasColumn(transactions.items, "Date")
                /\ ~ToDatetimeOk(transactions.items)
        THEN Raise("ValueError")
        ELSE IF HasColumn(transactions.items, "Category")
                /\ HasColumn(transactions.items, "Amount")
        THEN Ok([state EXCEPT
                  !.transactions = PyList(DataFrameWithDates(transactions.items)),
                  !.category_spending =
                      PyDict(GroupBySum(transactions.items, SortedCategories)),
                  !.total_spending = PyInt(SumAmounts(transactions.items))])
        ELSE Ok([state EXCEPT
                  !.transactions = PyList(DataFrameWithDates(transactions.items))])

\* lines 382-395
PreprocessTransactions(state) ==
    LET transactions == StateGet(state, "transactions")
    IN  IF ~Truthy(transactions) THEN Ok(state)
        ELSE IF HasColumn(transactions.items, "Date")
                /\ ~ToDatetimeOk(transactions.items)
        THEN Raise("ValueError")
        ELSE IF HasColumn(transactions.items, "Category")
                /\ HasColumn(transactions.items, "Amount")
        THEN Ok([state EXCEPT
                  !.category_spending =
                      PyDict(GroupBySum(transactions.items, SortedCategories)),
                  !.total_spending = PyInt(SumAmounts(transactions.items))])
        ELSE Ok(state)

PreprocessManualExpenses(state) ==
    LET manual_expenses == StateGet(state, "manual_expenses")
    IN  IF ~Truthy(manual_expenses) THEN state
        ELSE [state EXCEPT
                !.total_manual_spending = PyInt(SumValues(manual_expenses.items)),
                !.manual_category_spending = manual_expenses]

(***************************************************************************)
(* State of one FinanceAdvisorSystem and of its analyze_finances calls.     *)
(***************************************************************************)
VARIABLES
    now,        \* the wall clock, in ticks
    dupPolicy,  \* what create_session does with an id that exists
    sessions,   \* session_service: session id -> [owner, state]
    pc,         \* per run: position in analyze_finances
    input,      \* per run: financial_data
    sid,        \* per run: session_id
    handle,     \* per run: state of the session object create_session returned
    defaults,   \* per run: default_results
    ctx,        \* per run: the session object the Runner works on
    stage,      \* per run: index of the sub-agent the coordinator is at
    calls,      \* per run: the Reasoner invocations [stage, outcome], in order
    created,    \* per run: create_session succeeded
    deleted,    \* per run: owner of the session its cleanup removed (0: none)
    ret,        \* per run: the value returned or the exception raised
    heap,       \* per run: the contents of the caller's mutable input objects
    hist,       \* per run: the steps of analyze_finances taken so far, in order
    ui          \* per run: the widgets of main() when the analyze button was pressed

vars == <<now, dupPolicy, sessions, pc, input, sid, handle, defaults, ctx,
          stage, calls, created, deleted, ret, heap, hist, ui>>

Pending == [tag |-> "pending"]

\* the mutable objects financial_data holds, by key: the values the caller
\* passed for manual_expenses, transactions and debts
CallerObjects(fd) ==
    [manual_expenses |-> fd.manual_expenses,
     transactions |-> fd.transactions,
     debts |-> fd.debts]

Call(k, o) == [stage |-> k, outcome |-> o]

\* strftime('%Y%m%d_%H%M%S'): the clock truncated to whole seconds
SessionId(t) == t \div TicksPerSecond

\* whether create_session rejects an id that exists or replaces the session
DupPolicies == {"raise", "overwrite"}

Init ==
    /\ now = 0
    /\ dupPolicy \in DupPolicies
    /\ sessions = <<>>
    /\ pc = [r \in Runs |-> "idle"]
    /\ input = [r \in Runs |-> PyNone]
    /\ sid = [r \in Runs |-> 0]
    /\ handle = [r \in Runs |-> PyNone]
    /\ defaults = [r \in Runs |-> PyNone]
    /\ ctx = [r \in Runs |-> PyNone]
    /\ stage = [r \in Runs |-> 0]
    /\ calls = [r \in Runs |-> <<>>]
    /\ created = [r \in Runs |-> FALSE]
    /\ deleted = [r \in Runs |-> 0]
    /\ ret = [r \in Runs |-> Pending]
    /\ heap = [r \in Runs |-> PyNone]
    /\ hist = [r \in Runs |-> <<>>]
    /\ ui = [r \in Runs |-> PyNone]

\* the clock is read only when a call starts (line 320)
Tick ==
    /\ now < MaxClock
    /\ \E r \in Runs : pc[r] = "idle"
    /\ now' = now + 1
    /\ UNCHANGED <<dupPolicy, heap, hist, ui, sessions, pc, input, sid, handle, defaults,
                   ctx, stage, calls, created, deleted, ret>>

\* line 320: the call starts and derives its session id from the clock
Invoke(r, fd) ==
    /\ pc[r] = "idle"
    /\ pc' = [pc EXCEPT ![r] = "create"]
    /\ input' = [input EXCEPT ![r] = fd]
    /\ sid' = [sid EXCEPT ![r] = SessionId(now)]
    /\ heap' = [heap EXCEPT ![r] = CallerObjects(fd)]
    /\ UNCHANGED <<now, hist, ui, dupPolicy, sessions, handle, defaults, ctx, stage,
                   calls, created, deleted, ret>>

\* lines 338-342 on the session object create_session returned
Preprocess(state) ==
    LET p == IF Truthy(StateGet(state, "transactions"))
             THEN PreprocessTransactions(state) ELSE Ok(state)
    IN  IF ~p.ok THEN p
        ELSE IF Truthy(StateGet(p.value, "manual_expenses"))
        THEN Ok(PreprocessManualExpenses(p.value))
        ELSE p

\* the steps lines 331-344 reach, in program order: create_session, then
\* the preprocessors if it returned, then the fallback result if they did
StepsAtCreate(createRaises, preprocessOk) ==
    IF createRaises THEN <<"create">>
    ELSE IF ~preprocessOk THEN <<"create", "preprocess">>
    ELSE <<"create", "preprocess", "fallback">>

\* lines 323-349: create_session, the preprocessors, the fallback result
CreateSession(r) ==
    /\ pc[r] = "create"
    /\ IF sid[r] \in DOMAIN sessions /\ dupPolicy = "raise"
       THEN /\ ret' = [ret EXCEPT ![r] = Raise("AlreadyExistsError")]
            /\ pc' = [pc EXCEPT ![r] = "finally"]
            /\ UNCHANGED <<sessions, handle, defaults, created>>
       ELSE LET state == InitialState(input[r])
                p == Preprocess(state)
                d == CreateDefaultResults(input[r])
            IN  /\ sessions' = (sid[r] :> [owner |-> r, state |-> state]) @@ sessions
                /\ created' = [created EXCEPT ![r] = TRUE]
                /\ handle' = [handle EXCEPT ![r] = IF p.ok THEN p.value ELSE state]
                /\ defaults' = [defaults EXCEPT ![r] =
                                   IF p.ok /\ d.ok THEN d.value ELSE PyNone]
                /\ ret' = [ret EXCEPT ![r] =
                              IF ~p.ok THEN Raise(p.error)
                              ELSE IF ~d.ok THEN Raise(d.error) ELSE Pending]
                /\ pc' = [pc EXCEPT ![r] = IF p.ok /\ d.ok THEN "run" ELSE "finally"]
    /\ hist' = [hist EXCEPT ![r] =
                   @ \o StepsAtCreate(sid[r] \in DOMAIN sessions /\ dupPolicy = "raise",
                                      Preprocess(InitialState(input[r])).ok)]
    /\ UNCHANGED <<now, heap, ui, dupPolicy, input, sid, ctx, stage, calls, deleted>>

\* line 351: run_async fetches the session by id and starts the coordinator
RunnerStart(r) ==
    /\ pc[r] = "run"
    /\ IF sid[r] \in DOMAIN sessions
       THEN /\ ctx' = [ctx EXCEPT ![r] = sessions[sid[r]]]
            /\ stage' = [stage EXCEPT ![r] = 1]
            /\ pc' = [pc EXCEPT ![r] = "stage"]
            /\ ret' = ret
       ELSE /\ ret' = [ret EXCEPT ![r] = Raise("ValueError")]
            /\ pc' = [pc EXCEPT ![r] = "finally"]
            /\ UNCHANGED <<ctx, stage>>
    /\ hist' = [hist EXCEPT ![r] =
                   IF sid[r] \in DOMAIN sessions THEN Append(@, "coordinator") ELSE @]
    /\ UNCHANGED <<now, heap, ui, dupPolicy, sessions, input, sid, handle, defaults,
                   calls, created, deleted>>

\* AfterStage with the loop of lines 355-357 leaving on any final event,
\* whoever its author is: the state is read after the first sub-agent
AfterStageAnyFinal(r) ==
    /\ pc' = [pc EXCEPT ![r] = "get"]
    /\ stage' = stage

\* lines 306-310, 355-357: after a sub-agent's final event the coordinator
\* goes on to the next sub-agent; the loop leaves early only on a final
\* event authored by the coordinator itself
AfterStage(r) ==
    IF StageNames[stage[r]] = CoordinatorName \/ stage[r] = NumStages
    THEN /\ pc' = [pc EXCEPT ![r] = "get"]
         /\ stage' = stage
    ELSE /\ pc' = pc
         /\ stage' = [stage EXCEPT ![r] = stage[r] + 1]

\* a stage's Reasoner call raises: the event stream raises into line 351
StageRaise(r) ==
    /\ pc[r] = "stage"
    /\ calls' = [calls EXCEPT ![r] = Append(calls[r], Call(stage[r], "raise"))]
    /\ ret' = [ret EXCEPT ![r] = Raise("ReasonerError")]
    /\ pc' = [pc EXCEPT ![r] = "finally"]
    /\ UNCHANGED <<now, heap, hist, ui, dupPolicy, sessions, input, sid, handle, defaults, ctx,
                   stage, created, deleted>>

\* StageSilent with a coordinator that invokes a stage that produced no
\* output a second time before going on
StageSilentRetried(r) ==
    /\ pc[r] = "stage"
    /\ calls' = [calls EXCEPT ![r] = Append(calls[r], Call(stage[r], "silent"))]
    /\ IF \E i \in 1..Len(calls[r]) : calls[r][i].stage = stage[r]
       THEN AfterStage(r)
       ELSE pc' = pc /\ stage' = stage
    /\ UNCHANGED <<now, heap, hist, ui, dupPolicy, sessions, input, sid, handle, defaults, ctx,
                   created, deleted, ret>>

\* a stage ends without output: nothing is written under its key
StageSilent(r) ==
    /\ pc[r] = "stage"
    /\ calls' = [calls EXCEPT ![r] = Append(calls[r], Call(stage[r], "silent"))]
    /\ AfterStage(r)
    /\ UNCHANGED <<now, heap, hist, ui, dupPolicy, sessions, input, sid, handle, defaults, ctx,
                   created, deleted, ret>>

\* a stage reads the Runner's session and writes a value under its output
\* key, in the Runner's session and in the stored session of that id
StageWrite(r, kind) ==
    LET key == OutputKeys[stage[r]]
        v == WrittenValue(kind, key, ctx[r].owner)
    IN  /\ pc[r] = "stage"
        /\ calls' = [calls EXCEPT ![r] = Append(calls[r], Call(stage[r], kind))]
        /\ ctx' = [ctx EXCEPT ![r].state[key] = v]
        /\ sessions' = IF sid[r] \in DOMAIN sessions
                       THEN [sessions EXCEPT ![sid[r]].state[key] = v]
                       ELSE sessions
        /\ AfterStage(r)
        /\ UNCHANGED <<now, heap, hist, ui, dupPolicy, input, sid, handle, defaults, created,
                       deleted, ret>>

\* lines 365-368 over the state get_session returned
MergeResults(state, default_results) ==
    [key \in {OutputKeys[i] : i \in 1..NumStages} |->
        LET value == StateGet(state, key)
        IN  IF Truthy(value) THEN ParseJsonSafely(value, default_results[key])
            ELSE default_results[key]]

\* lines 359-370: get_session returns None for an id that is not stored
GetSession(r) ==
    /\ pc[r] = "get"
    /\ ret' = [ret EXCEPT ![r] =
                 IF sid[r] \in DOMAIN sessions
                 THEN Ok(MergeResults(sessions[sid[r]].state, defaults[r]))
                 ELSE Raise("AttributeError")]
    /\ pc' = [pc EXCEPT ![r] = "finally"]
    /\ hist' = [hist EXCEPT ![r] = Append(@, "read")]
    /\ UNCHANGED <<now, heap, ui, dupPolicy, sessions, input, sid, handle, defaults, ctx,
                   stage, calls, created, deleted>>

\* DeleteSession with the delete at the end of the try block instead of in
\* a finally block: a run that raised leaves its session behind
DeleteSessionOnReturnOnly(r) ==
    /\ pc[r] = "finally"
    /\ deleted' = [deleted EXCEPT ![r] =
                     IF ret[r].ok /\ sid[r] \in DOMAIN sessions
                     THEN sessions[sid[r]].owner ELSE 0]
    /\ sessions' = IF ret[r].ok
                   THEN [i \in DOMAIN sessions \ {sid[r]} |-> sessions[i]]
                   ELSE sessions
    /\ pc' = [pc EXCEPT ![r] = "done"]
    /\ hist' = [hist EXCEPT ![r] = Append(@, "delete")]
    /\ UNCHANGED <<now, heap, ui, dupPolicy, input, sid, handle, defaults, ctx, stage,
                   calls, created, ret>>

\* DeleteSession with a return statement in the finally block: the pending
\* exception is dropped and the caller gets a value
DeleteSessionSwallowsError(r) ==
    /\ pc[r] = "finally"
    /\ deleted' = [deleted EXCEPT ![r] =
                     IF sid[r] \in DOMAIN sessions THEN sessions[sid[r]].owner ELSE 0]
    /\ sessions' = [i \in DOMAIN sessions \ {sid[r]} |-> sessions[i]]
    /\ ret' = [ret EXCEPT ![r] = IF ret[r].ok THEN ret[r] ELSE Ok(PyNone)]
    /\ pc' = [pc EXCEPT ![r] = "done"]
    /\ hist' = [hist EXCEPT ![r] = Append(@, "delete")]
    /\ UNCHANGED <<now, heap, ui, dupPolicy, input, sid, handle, defaults, ctx, stage,
                   calls, created>>

\* lines 375-380: the finally block, then the call returns or raises
DeleteSession(r) ==
    /\ pc[r] = "finally"
    /\ deleted' = [deleted EXCEPT ![r] =
                     IF sid[r] \in DOMAIN sessions THEN sessions[sid[r]].owner ELSE 0]
    /\ sessions' = [i \in DOMAIN sessions \ {sid[r]} |-> sessions[i]]
    /\ pc' = [pc EXCEPT ![r] = "done"]
    /\ hist' = [hist EXCEPT ![r] = Append(@, "delete")]
    /\ UNCHANGED <<now, heap, ui, dupPolicy, input, sid, handle, defaults, ctx, stage,
                   calls, created, ret>>

Next ==
    \/ Tick
    \/ \E r \in Runs :
        \/ \E fd \in ConcurrentInputs : Invoke(r, fd)
        \/ CreateSession(r)
        \/ RunnerStart(r)
        \/ StageRaise(r)
        \/ StageSilent(r)
        \/ \E kind \in ArtifactOnly : StageWrite(r, kind)
        \/ GetSession(r)
        \/ DeleteSession(r)

Spec == Init /\ [][Next]_vars

\* one call alone, over every input and every kind of value a stage may leave
\* the caller, after the call has returned, appends a debt to the list it
\* passed as financial_data["debts"]
MutateInput(r) ==
    /\ pc[r] = "done"
    /\ heap[r].debts.tag = "list"
    /\ heap' = [heap EXCEPT ![r].debts =
                   PyList(Append(@.items, DebtRec("Loan", PyInt(500))))]
    /\ pc' = [pc EXCEPT ![r] = "mutated"]
    /\ UNCHANGED <<now, hist, ui, dupPolicy, sessions, input, sid, handle, defaults, ctx,
                   stage, calls, created, deleted, ret>>

NextSingle ==
    \/ Tick
    \/ \E fd \in Inputs : Invoke(1, fd)
    \/ CreateSession(1)
    \/ RunnerStart(1)
    \/ StageRaise(1)
    \/ StageSilent(1)
    \/ \E kind \in AllKinds : StageWrite(1, kind)
    \/ GetSession(1)
    \/ DeleteSession(1)
    \/ MutateInput(1)

SpecSingle == Init /\ [][NextSingle]_vars

\* financial_data as it is now: the caller's objects with their contents
CurrentInput(r) ==
    [input[r] EXCEPT !.manual_expenses = heap[r].manual_expenses,
                     !.transactions = heap[r].transactions,
                     !.debts = heap[r].debts]

\* _create_default_results called on its own, on every generated input
InitFallback ==
    /\ now = 0
    /\ dupPolicy = "raise"
    /\ sessions = <<>>
    /\ pc = [r \in Runs |-> IF r = 1 THEN "fallback" ELSE "idle"]
    /\ \E fd \in GenInputs :
          /\ input = [r \in Runs |-> IF r = 1 THEN fd ELSE PyNone]
          /\ heap = [r \in Runs |-> IF r = 1 THEN CallerObjects(fd) ELSE PyNone]
    /\ sid = [r \in Runs |-> 0]
    /\ handle = [r \in Runs |-> PyNone]
    /\ defaults = [r \in Runs |-> PyNone]
    /\ ctx = [r \in Runs |-> PyNone]
    /\ stage = [r \in Runs |-> 0]
    /\ calls = [r \in Runs |-> <<>>]
    /\ created = [r \in Runs |-> FALSE]
    /\ deleted = [r \in Runs |-> 0]
    /\ ret = [r \in Runs |-> Pending]
    /\ hist = [r \in Runs |-> <<>>]
    /\ ui = [r \in Runs |-> PyNone]

\* SynthesizeDefaults without the rebinding of line 412: the transactions
\* are aggregated into the caller's own (empty) manual_expenses mapping
SynthesizeDefaultsInPlace(r) ==
    /\ pc[r] = "fallback"
    /\ LET d == CreateDefaultResults(CurrentInput(r))
       IN  /\ defaults' = [defaults EXCEPT ![r] = IF d.ok THEN d.value ELSE PyNone]
           /\ ret' = [ret EXCEPT ![r] = d]
    /\ heap' = [heap EXCEPT ![r].manual_expenses =
                   IF heap[r].manual_expenses.tag = "dict"
                   THEN ResolveExpenses(CurrentInput(r))
                   ELSE heap[r].manual_expenses]
    /\ pc' = [pc EXCEPT ![r] = "done"]
    /\ UNCHANGED <<now, hist, ui, dupPolicy, sessions, input, sid, handle, ctx, stage,
                   calls, created, deleted>>

\* line 344 alone: the call returns the three fallback artifacts or raises
SynthesizeDefaults(r) ==
    /\ pc[r] = "fallback"
    /\ LET d == CreateDefaultResults(CurrentInput(r))
       IN  /\ defaults' = [defaults EXCEPT ![r] = IF d.ok THEN d.value ELSE PyNone]
           /\ ret' = [ret EXCEPT ![r] = d]
    /\ pc' = [pc EXCEPT ![r] = "done"]
    /\ UNCHANGED <<now, heap, hist, ui, dupPolicy, sessions, input, sid, handle, ctx, stage,
                   calls, created, deleted>>

\* a second call with the same financial_data object
SynthesizeAgain(r) ==
    /\ pc[r] = "done"
    /\ ret' = [ret EXCEPT ![r] = CreateDefaultResults(CurrentInput(r))]
    /\ pc' = [pc EXCEPT ![r] = "again"]
    /\ UNCHANGED <<now, heap, hist, ui, dupPolicy, sessions, input, sid, handle, defaults,
                   ctx, stage, calls, created, deleted>>

NextFallback == SynthesizeDefaults(1) \/ SynthesizeAgain(1)

SpecFallback == InitFallback /\ [][NextFallback]_vars

(***************************************************************************)
(* main(): the expense widgets and the analyze button (lines 939-1151).    *)
(* The radio labels begin with an emoji, written here as a bracketed name. *)
(***************************************************************************)
CsvLabel == "[outbox] Upload CSV Transactions"
ManualLabel == "[writing] Enter Manually"
ExpenseOptions == {CsvLabel, ManualLabel}

\* the text line 1132 compares expense_option with
GuardLabel == "Upload CSV Transactions"

\* lines 996-1022: one number input per category, 0.0 unless filled in
ManualEntries ==
    {PyDict(<<Entry("Housing", 0), Entry("Food", 0)>>),
     PyDict(<<Entry("Housing", 1200), Entry("Food", 300)>>)}

Widgets(option, loaded, manual) ==
    [tag |-> "ui", expense_option |-> option, file_loaded |-> loaded,
     manual_entries |-> manual]

\* lines 946-994: transactions_df is set only in the CSV branch and only for
\* a file that validated and parsed; use_manual_expenses only in the other
TransactionsDf(w) ==
    IF w.expense_option = CsvLabel /\ w.file_loaded
    THEN UiCsvInput.transactions ELSE PyNone

UseManualExpenses(w) == w.expense_option # CsvLabel

\* line 1132
MissingFileGuard(w) ==
    w.expense_option = GuardLabel /\ TransactionsDf(w) = PyNone

\* lines 1140-1146
BuildFinancialData(w) ==
    Input(PyInt(2000), TransactionsDf(w),
          IF UseManualExpenses(w) THEN w.manual_entries ELSE PyNone,
          PyList(<<>>))

\* lines 1131-1150: the analyze button is pressed; either the guard reports
\* an error and main() returns, or a FinanceAdvisorSystem is constructed and
\* analyze_finances is called (line 320 included)
PressAnalyze(r, w) ==
    /\ pc[r] = "idle"
    /\ ui' = [ui EXCEPT ![r] = w]
    /\ IF MissingFileGuard(w)
       THEN /\ pc' = [pc EXCEPT ![r] = "stopped"]
            /\ UNCHANGED <<input, sid, heap>>
       ELSE /\ pc' = [pc EXCEPT ![r] = "create"]
            /\ input' = [input EXCEPT ![r] = BuildFinancialData(w)]
            /\ sid' = [sid EXCEPT ![r] = SessionId(now)]
            /\ heap' = [heap EXCEPT ![r] = CallerObjects(BuildFinancialData(w))]
    /\ UNCHANGED <<now, hist, dupPolicy, sessions, handle, defaults, ctx, stage,
                   calls, created, deleted, ret>>

NextUi ==
    \/ Tick
    \/ \E option \in ExpenseOptions, loaded \in BOOLEAN, manual \in ManualEntries :
          PressAnalyze(1, Widgets(option, loaded, manual))
    \/ CreateSession(1)
    \/ RunnerStart(1)
    \/ StageRaise(1)
    \/ StageSilent(1)
    \/ \E kind \in AllKinds : StageWrite(1, kind)
    \/ GetSession(1)
    \/ DeleteSession(1)

SpecUi == Init /\ [][NextUi]_vars

(***************************************************************************)
(* The preprocessors followed by the fallback synthesizer, on generated    *)
(* inputs: lines 338-344 on the session object create_session returned.   *)
(***************************************************************************)
InitPreprocess ==
    /\ now = 0
    /\ dupPolicy = "raise"
    /\ sessions = <<>>
    /\ pc = [r \in Runs |-> IF r = 1 THEN "preprocess" ELSE "idle"]
    /\ \E fd \in GenPreprocessInputs :
          /\ input = [r \in Runs |-> IF r = 1 THEN fd ELSE PyNone]
          /\ heap = [r \in Runs |-> IF r = 1 THEN CallerObjects(fd) ELSE PyNone]
          /\ handle = [r \in Runs |-> IF r = 1 THEN InitialState(fd) ELSE PyNone]
    /\ sid = [r \in Runs |-> 0]
    /\ defaults = [r \in Runs |-> PyNone]
    /\ ctx = [r \in Runs |-> PyNone]
    /\ stage = [r \in Runs |-> 0]
    /\ calls = [r \in Runs |-> <<>>]
    /\ created = [r \in Runs |-> FALSE]
    /\ deleted = [r \in Runs |-> 0]
    /\ ret = [r \in Runs |-> Pending]
    /\ hist = [r \in Runs |-> <<>>]
    /\ ui = [r \in Runs |-> PyNone]

\* lines 338-342: both preprocessors on the session's state
RunPreprocessors(r) ==
    /\ pc[r] = "preprocess"
    /\ LET p == Preprocess(handle[r])
       IN  /\ handle' = [handle EXCEPT ![r] = IF p.ok THEN p.value ELSE @]
           /\ ret' = [ret EXCEPT ![r] = IF p.ok THEN @ ELSE Raise(p.error)]
           /\ pc' = [pc EXCEPT ![r] = IF p.ok THEN "fallback" ELSE "done"]
    /\ UNCHANGED <<now, heap, hist, ui, dupPolicy, sessions, input, sid, defaults, ctx,
                   stage, calls, created, deleted>>

NextPreprocess == RunPreprocessors(1) \/ SynthesizeDefaults(1)

SpecPreprocess == InitPreprocess /\ [][NextPreprocess]_vars

(***************************************************************************)
(* Vocabulary of the properties.                                           *)
(***************************************************************************)
Done(r) == pc[r] = "done"
Returned(r) == Done(r) /\ ret[r].ok
Raised(r) == Done(r) /\ ~ret[r].ok

KeySet == {OutputKeys[i] : i \in 1..NumStages}

\* the Reasoner outcomes that count as a stage's success: a conforming
\* artifact, as an object or as its JSON text
SuccessOutcomes == {"artifact", "artifact-json"}

StageInvoked(r, k) == \E i \in 1..Len(calls[r]) : calls[r][i].stage = k
StageSucceeded(r, k) ==
    \E i \in 1..Len(calls[r]) :
        calls[r][i].stage = k /\ calls[r][i].outcome \in SuccessOutcomes
StageFailed(r, k) ==
    \E i \in 1..Len(calls[r]) :
        calls[r][i].stage = k /\ calls[r][i].outcome \notin SuccessOutcomes

\* the fallback value of run r for a key
Fallback(r, key) == CreateDefaultResults(input[r]).value[key]

(***************************************************************************)
(* C1: whenever a run of analyze_finances finishes, by returning or by     *)
(* raising, the session with that run's session id is absent from the      *)
(* session store at that moment.                                           *)
(***************************************************************************)
C1_SessionAbsentWhenFinished ==
    [][\A r \in Runs :
          (pc[r] # "done" /\ pc'[r] = "done") => sid[r] \notin DOMAIN sessions']_vars

\* a run that created its session, then raised, has finished without it
C1_Witness ==
    \E r \in Runs : Raised(r) /\ created[r] /\ sid[r] \notin DOMAIN sessions

(***************************************************************************)
(* C2: whenever analyze_finances returns normally, each of the three keys  *)
(* maps to a non-null, non-empty structured artifact, whatever value the   *)
(* stage left under the key.                                               *)
(***************************************************************************)
C2_CompleteResult ==
    \A r \in Runs :
        Returned(r) =>
            /\ DOMAIN ret[r].value = KeySet
            /\ \A key \in KeySet : ret[r].value[key].tag = "artifact"

(***************************************************************************)
(* C3: if the Reasoner fails at every stage it is invoked for, the call    *)
(* returns normally and each artifact is the fallback value of the input.  *)
(***************************************************************************)
C3_AllFailGivesFallback ==
    \A r \in Runs :
        (Done(r) /\ calls[r] # <<>>
            /\ \A i \in 1..Len(calls[r]) : calls[r][i].outcome \notin SuccessOutcomes)
        => /\ ret[r].ok
           /\ CreateDefaultResults(input[r]).ok
           /\ \A key \in KeySet : ret[r].value[key] = Fallback(r, key)

(***************************************************************************)
(* C4: if the Budget stage succeeds and only the Savings stage fails, the  *)
(* Debt stage is never started and the result is the Budget artifact with  *)
(* the fallback savings_strategy and the fallback debt_reduction.          *)
(***************************************************************************)
C4_SavingsFailureSkipsDebt ==
    \A r \in Runs :
        (Done(r) /\ StageSucceeded(r, 1) /\ StageFailed(r, 2) /\ ~StageFailed(r, 3))
        => /\ ~StageInvoked(r, 3)
           /\ ret[r].ok =>
                 /\ Conforms(ret[r].value.budget_analysis, "budget_analysis")
                 /\ ret[r].value.budget_analysis.origin = "reasoner"
                 /\ ret[r].value.savings_strategy = Fallback(r, "savings_strategy")
                 /\ ret[r].value.debt_reduction = Fallback(r, "debt_reduction")

(***************************************************************************)
(* C5: of two overlapping calls, each returns a result that depends only   *)
(* on its own input (its own fallback values and artifacts derived from    *)
(* the state it seeded), and neither fails on a session error caused by    *)
(* the other.                                                              *)
(***************************************************************************)
SessionErrors == {"AlreadyExistsError", "ValueError", "AttributeError"}

OwnValue(r, key, v) ==
    IF v.tag = "artifact" /\ v.origin = "reasoner" THEN v.src = r
    ELSE v = Fallback(r, key)

InCall(r) == pc[r] \notin {"idle", "done", "mutated"}

C6_UniqueSessionIds ==
    \A r1, r2 \in Runs :
        (r1 # r2 /\ InCall(r1) /\ InCall(r2) /\ created[r2]) => sid[r1] # sid[r2]

(***************************************************************************)
(* C7: the delete of a run's cleanup only ever removes a session that the  *)
(* same run created.                                                       *)
(***************************************************************************)
C7_DeletesOnlyOwnSession ==
    \A r \in Runs : deleted[r] \in {0, r}

(***************************************************************************)
(* C8: the stages run in the order Budget, Savings, Debt, and a stage      *)
(* after the first is invoked only when its predecessor's output key is    *)
(* present in the session state.                                           *)
(***************************************************************************)
C8_StagesGatedOnPredecessor ==
    [][\A r \in Runs :
          Len(calls'[r]) > Len(calls[r]) =>
              /\ stage[r] = Len(calls[r]) + 1
              /\ stage[r] > 1 =>
                    ctx[r].state[OutputKeys[stage[r] - 1]].tag # "missing"]_vars

(***************************************************************************)
(* C9: for each key, the returned value is the stage's artifact if and     *)
(* only if the value the stage left under the key is, or decodes to, an    *)
(* object conforming to the stage's schema; otherwise it is the fallback.  *)
(***************************************************************************)
\* what the value left under a key is once decoded
Decoded(v) ==
    IF v.tag = "str" THEN (IF JsonLoads(v).ok THEN JsonLoads(v).value ELSE Missing)
    ELSE v

C9_ArtifactIffConforms ==
    \A r \in Runs :
        Returned(r) =>
            \A key \in KeySet :
                LET left == Decoded(ctx[r].state[key])
                IN  IF Conforms(left, key)
                    THEN ret[r].value[key] = left
                    ELSE ret[r].value[key] = Fallback(r, key)

(***************************************************************************)
(* C10: for a malformed input (a negative income, expense or debt amount)  *)
(* no session of the run is ever created and no Reasoner is invoked.       *)
(***************************************************************************)
\* a well-formed FinancialInput: no negative income, expense or debt amount
RECURSIVE AllNonNegative(_)
AllNonNegative(items) ==
    items = <<>> \/ (Head(items) >= 0 /\ AllNonNegative(Tail(items)))

ValidInput(fd) ==
    /\ GetOr(fd.monthly_income, PyInt(0)).n >= 0
    /\ fd.manual_expenses.tag = "dict" =>
          AllNonNegative([i \in 1..Len(fd.manual_expenses.items) |->
                             fd.manual_expenses.items[i].v])
    /\ fd.transactions.tag = "list" =>
          AllNonNegative([i \in 1..Len(fd.transactions.items) |->
                             GetOr(fd.transactions.items[i].Amount, PyInt(0)).n])
    /\ fd.debts.tag = "list" =>
          AllNonNegative([i \in 1..Len(fd.debts.items) |->
                             GetOr(fd.debts.items[i].amount, PyInt(0)).n])

C10_InvalidInputRejected ==
    \A r \in Runs :
        (pc[r] # "idle" /\ ~ValidInput(input[r])) => (~created[r] /\ calls[r] = <<>>)

(***************************************************************************)
(* C11: an error raised inside the try block (preprocessing, fallback,     *)
(* Coordinator run, final session read) is the error the caller gets: the  *)
(* run finishes with that same error and no result, and its session id is  *)
(* out of the store when it does.                                          *)
(***************************************************************************)
C11_ErrorPropagatesAfterCleanup ==
    [][\A r \in Runs :
          (pc[r] = "finally" /\ ~ret[r].ok /\ pc'[r] # pc[r])
          => /\ pc'[r] = "done"
             /\ ret'[r] = ret[r]
             /\ sid[r] \notin DOMAIN sessions']_vars

\* the final session read raised after the Coordinator had run, and the
\* caller got that error
C11_Witness ==
    \E r \in Runs :
        /\ Raised(r) /\ ret[r].error = "AttributeError" /\ calls[r] # <<>>
        /\ sid[r] \notin DOMAIN sessions

(***************************************************************************)
(* C12: every run eventually finishes, and the pipeline is done when the   *)
(* Debt stage's artifact is written or as soon as a stage fails, the       *)
(* remaining stages being skipped: a failed Reasoner call is the last      *)
(* Reasoner call of its run.                                               *)
(***************************************************************************)
C12_FailureEndsPipeline ==
    \A r \in Runs :
        \A i \in 1..Len(calls[r]) :
            calls[r][i].outcome \notin SuccessOutcomes => i = Len(calls[r])

\* the termination half of C12: with every step of a started call (each
\* Reasoner call included) eventually completing, the call finishes
CallStep(r) ==
    \/ CreateSession(r)
    \/ RunnerStart(r)
    \/ StageRaise(r)
    \/ StageSilent(r)
    \/ \E kind \in AllKinds : StageWrite(r, kind)
    \/ GetSession(r)
    \/ DeleteSession(r)

SpecSingleFair == SpecSingle /\ WF_vars(CallStep(1))

EveryCallFinishes == \A r \in Runs : (pc[r] = "create") ~> (pc[r] = "done")

(***************************************************************************)
(* C13: within one run the Reasoner is invoked at most once for each       *)
(* stage: neither a failed nor a succeeded stage is invoked again.         *)
(***************************************************************************)
C13_AtMostOncePerStage ==
    \A r \in Runs :
        \A i, j \in 1..Len(calls[r]) :
            calls[r][i].stage = calls[r][j].stage => i = j

\* a finished run in which a stage failed, a later stage succeeded and all
\* three stages were invoked
C13_Witness ==
    \E r \in Runs :
        /\ Done(r) /\ Len(calls[r]) = NumStages
        /\ StageFailed(r, 1) /\ StageSucceeded(r, 2)

(***************************************************************************)
(* C14: whenever the fallback total_expenses is greater than 0, the        *)
(* percentages of the fallback spending_categories sum to 100 (exactly, in *)
(* the exact arithmetic of the model).                                     *)
(***************************************************************************)
RECURSIVE SumPercentages(_)
SumPercentages(cats) ==
    IF cats = <<>> THEN Rat(0, 1)
    ELSE RatAdd(Head(cats).percentage, SumPercentages(Tail(cats)))

FallbackBudget(r) == ret[r].value.budget_analysis.body

C14_PercentagesSumTo100 ==
    \A r \in Runs :
        (Returned(r) /\ FallbackBudget(r).total_expenses > 0)
        => SumPercentages(FallbackBudget(r).spending_categories) = Rat(100, 1)

\* two categories aggregated from transactions, one of them negative
C14_Witness ==
    \E r \in Runs :
        /\ Returned(r) /\ FallbackBudget(r).total_expenses > 0
        /\ Len(FallbackBudget(r).spending_categories) = 2
        /\ \E i \in 1..2 : FallbackBudget(r).spending_categories[i].amount < 0
        /\ ~Truthy(input[r].manual_expenses)

(***************************************************************************)
(* C15: the fallback total_debt is the sum of the input debts' amounts (a  *)
(* debt without an amount counts 0); both plans have months_to_payoff 24   *)
(* and monthly_payment total_debt / 24; avalanche.total_interest is 20%    *)
(* and snowball.total_interest 25% of total_debt.                          *)
(***************************************************************************)
\* the sum of the amounts that are present, by position
RECURSIVE AmountsUpTo(_, _)
AmountsUpTo(debts, n) ==
    IF n = 0 THEN 0
    ELSE AmountsUpTo(debts, n - 1)
         + (IF debts[n].amount.tag = "missing" THEN 0 ELSE debts[n].amount.n)

InputDebtTotal(fd) ==
    IF fd.debts.tag = "missing" THEN 0
    ELSE AmountsUpTo(fd.debts.items, Len(fd.debts.items))

FallbackDebt(r) == ret[r].value.debt_reduction.body

HasManual(fd) ==
    fd.manual_expenses.tag = "dict" /\ fd.manual_expenses.items # <<>>
HasTransactions(fd) ==
    fd.transactions.tag = "list" /\ fd.transactions.items # <<>>

CategoryOf(t) == IF t.Category.tag = "missing" THEN "Uncategorized" ELSE t.Category.s

RECURSIVE CategoryTotal(_, _, _)
CategoryTotal(txns, c, n) ==
    IF n = 0 THEN 0
    ELSE CategoryTotal(txns, c, n - 1)
         + (IF CategoryOf(txns[n]) = c /\ txns[n].Amount.tag # "missing"
            THEN txns[n].Amount.n ELSE 0)

ExpectedExpenses(fd, c) ==
    IF HasManual(fd) THEN DictGet(fd.manual_expenses.items, c, 0)
    ELSE IF HasTransactions(fd)
         THEN CategoryTotal(fd.transactions.items, c, Len(fd.transactions.items))
         ELSE 0

ExpectedCategories(fd) ==
    IF HasManual(fd)
    THEN {fd.manual_expenses.items[i].k : i \in 1..Len(fd.manual_expenses.items)}
    ELSE IF HasTransactions(fd)
         THEN {CategoryOf(fd.transactions.items[i]) : i \in 1..Len(fd.transactions.items)}
         ELSE {}

C17_ExpenseSourceResolution ==
    \A r \in Runs :
        Done(r)
        => /\ ret[r].ok
           /\ LET cats == ret[r].value.budget_analysis.body.spending_categories
                  fd == input[r]
              IN  /\ {cats[i].category : i \in 1..Len(cats)} = ExpectedCategories(fd)
                  /\ \A i \in 1..Len(cats) :
                        cats[i].amount = ExpectedExpenses(fd, cats[i].category)
                  /\ (~HasManual(fd) /\ ~HasTransactions(fd))
                     => ret[r].value.budget_analysis.body.total_expenses = 0

\* the same resolution, for the calls that return
C17_ResolutionWhenReturned ==
    \A r \in Runs :
        Returned(r)
        => LET cats == ret[r].value.budget_analysis.body.spending_categories
               fd == input[r]
           IN  /\ {cats[i].category : i \in 1..Len(cats)} = ExpectedCategories(fd)
               /\ \A i \in 1..Len(cats) :
                     cats[i].amount = ExpectedExpenses(fd, cats[i].category)
               /\ (~HasManual(fd) /\ ~HasTransactions(fd))
                  => ret[r].value.budget_analysis.body.total_expenses = 0

(***************************************************************************)
(* C18: the result returned by analyze_finances is a snapshot: it shares   *)
(* no mutable object with the caller's input or the session, so a change   *)
(* the caller makes to its input after the call (to its debts list, say)   *)
(* leaves the returned result as it was.                                   *)
(***************************************************************************)
\* the returned dictionary as the caller reads it, given its objects' contents
ResultView(r) ==
    [key \in KeySet |->
        LET v == ret[r].value[key]
        IN  IF v.tag = "artifact" /\ v.origin = "fallback" /\ key = "debt_reduction"
            THEN [v EXCEPT !.body.debts = Deref(@, heap[r])]
            ELSE v]

C18_ResultIsSnapshot ==
    [][\A r \in Runs :
          (Returned(r) /\ pc'[r] = "mutated") => ResultView(r)' = ResultView(r)]_vars

(***************************************************************************)
(* C19: in every run of analyze_finances the steps occur in the order      *)
(* create session, preprocess, compute the fallback result, start the      *)
(* coordinator, read the final state once the coordinator's event stream   *)
(* has ended, delete the session.  No Reasoner is invoked before the       *)
(* fallback result exists, and the state is not read after the run has     *)
(* deleted its session.                                                    *)
(***************************************************************************)
StepOrder == <<"create", "preprocess", "fallback", "coordinator", "read", "delete">>

Rank(step) == CHOOSE i \in 1..Len(StepOrder) : StepOrder[i] = step

Took(r, step) == \E i \in 1..Len(hist[r]) : hist[r][i] = step

C19_StepsInOrder ==
    \A r \in Runs :
        /\ \A i, j \in 1..Len(hist[r]) :
              i < j => Rank(hist[r][i]) < Rank(hist[r][j])
        /\ \A i \in 1..Len(hist[r]) :
              (hist[r][i] # "delete" /\ i > 1)
              => Rank(hist[r][i - 1]) = Rank(hist[r][i]) - 1
        /\ calls[r] # <<>>
           => /\ Took(r, "coordinator")
              /\ defaults[r] # PyNone
              /\ handle[r] # PyNone
        /\ Took(r, "read")
           => /\ calls[r] # <<>>
              /\ calls[r][Len(calls[r])].stage = NumStages
              /\ \A i \in 1..Len(hist[r]) :
                    hist[r][i] = "delete" => i = Len(hist[r]) /\ i > 1
        /\ Done(r) => hist[r][Len(hist[r])] = "delete"
        /\ Returned(r) => hist[r] = StepOrder

\* a run that returned after its three stages were invoked, while the other
\* run was in progress
C19_Witness ==
    \E r \in Runs :
        /\ Returned(r) /\ hist[r] = StepOrder
        /\ Len(calls[r]) = NumStages
        /\ \E q \in Runs \ {r} : InCall(q)

(***************************************************************************)
(* C20: when the Budget stage starts, the state stored in the session      *)
(* service under the run's session id, which is the state the stages read, *)
(* holds the aggregates the preprocessors derived: category_spending and   *)
(* total_spending for non-empty transactions, total_manual_spending and    *)
(* manual_category_spending for non-empty manual_expenses.                 *)
(***************************************************************************)
BudgetStarts(r) == pc[r] = "stage" /\ stage[r] = 1 /\ calls[r] = <<>>

AggregateKeys(fd) ==
    (IF HasTransactions(fd)
        /\ HasColumn(fd.transactions.items, "Category")
        /\ HasColumn(fd.transactions.items, "Amount")
     THEN {"category_spending", "total_spending"} ELSE {})
    \cup (IF HasManual(fd)
          THEN {"total_manual_spending", "manual_category_spending"} ELSE {})

C20_AggregatesInStoredSession ==
    \A r \in Runs :
        (BudgetStarts(r) /\ sid[r] \in DOMAIN sessions)
        => \A key \in AggregateKeys(input[r]) :
              /\ sessions[sid[r]].state[key].tag # "missing"
              /\ sessions[sid[r]].state[key] = handle[r][key]
              /\ ctx[r].state[key] = handle[r][key]

(***************************************************************************)
(* C21: after preprocessing, non-empty transactions give category_spending *)
(* (every category that occurs mapped to the sum of its amounts) and       *)
(* total_spending (the sum of all amounts); non-empty manual_expenses give *)
(* total_manual_spending (the sum of the values) and                       *)
(* manual_category_spending (the same entries); an empty source leaves its *)
(* aggregate keys unwritten.                                               *)
(***************************************************************************)
Preprocessed(r) == pc[r] = "fallback"

RECURSIVE AmountsTotal(_, _)
AmountsTotal(txns, n) ==
    IF n = 0 THEN 0
    ELSE AmountsTotal(txns, n - 1)
         + (IF txns[n].Amount.tag = "missing" THEN 0 ELSE txns[n].Amount.n)

OccurringCategories(txns) ==
    {txns[i].Category.s : i \in {j \in 1..Len(txns) : txns[j].Category.tag # "missing"}}

C21_PreprocessorAggregates ==
    \A r \in Runs :
        Preprocessed(r)
        => LET fd == input[r]
               st == handle[r]
               txns == fd.transactions.items
           IN  /\ HasTransactions(fd)
                  => /\ st.category_spending.tag = "dict"
                     /\ \A c \in OccurringCategories(txns) :
                           /\ DictHas(st.category_spending.items, c)
                           /\ DictGet(st.category_spending.items, c, 0)
                              = CategoryTotal(txns, c, Len(txns))
                     /\ st.total_spending = PyInt(AmountsTotal(txns, Len(txns)))
               /\ ~HasTransactions(fd)
                  => /\ st.category_spending.tag = "missing"
                     /\ st.total_spending.tag = "missing"
               /\ HasManual(fd)
                  => /\ st.total_manual_spending
                        = PyInt(SumValues(fd.manual_expenses.items))
                     /\ st.manual_category_spending = fd.manual_expenses
               /\ ~HasManual(fd)
                  => /\ st.total_manual_spending.tag = "missing"
                     /\ st.manual_category_spending.tag = "missing"

\* the same, for transactions that have both a Category and an Amount column
C21_AggregatesWhenColumnsPresent ==
    \A r \in Runs :
        (Preprocessed(r)
         /\ (HasTransactions(input[r])
             => /\ HasColumn(input[r].transactions.items, "Category")
                /\ HasColumn(input[r].transactions.items, "Amount")))
        => LET fd == input[r]
               st == handle[r]
               txns == fd.transactions.items
           IN  /\ HasTransactions(fd)
                  => /\ \A c \in OccurringCategories(txns) :
                           DictGet(st.category_spending.items, c, 0)
                           = CategoryTotal(txns, c, Len(txns))
                     /\ st.total_spending = PyInt(AmountsTotal(txns, Len(txns)))
               /\ HasManual(fd)
                  => /\ st.total_manual_spending
                        = PyInt(SumValues(fd.manual_expenses.items))
                     /\ st.manual_category_spending = fd.manual_expenses

(***************************************************************************)
(* C22: after _preprocess_transactions has run on non-empty transactions,  *)
(* the date of every transaction held in session state is in the form      *)
(* YYYY-MM-DD, whatever accepted form it had in the input.                 *)
(***************************************************************************)
IsCanonicalDate(text) ==
    ToDatetime(text) # PyNone /\ StrftimeYmd(ToDatetime(text)) = text

C22_DatesCanonicalInState ==
    \A r \in Runs :
        (Preprocessed(r) /\ HasTransactions(input[r]))
        => \A i \in 1..Len(handle[r].transactions.items) :
              LET date == handle[r].transactions.items[i].Date
              IN  date.tag # "missing" => IsCanonicalDate(date.s)

(***************************************************************************)
(* C23: the preprocessors only add their own aggregate keys: every key     *)
(* that existed before has the same value afterwards, and the only keys    *)
(* that may be new are category_spending, total_spending,                  *)
(* total_manual_spending and manual_category_spending.                     *)
(***************************************************************************)
PreprocessorKeys ==
    {"category_spending", "total_spending", "total_manual_spending",
     "manual_category_spending"}

C23_PreprocessorsOnlyAddAggregates ==
    [][\A r \in Runs :
          pc[r] = "preprocess"
          => \A key \in DOMAIN handle[r] \ PreprocessorKeys :
                 handle'[r][key] = handle[r][key]]_vars

\* both preprocessors have written, on transactions with a date in
\* month/day/year form
C23_Witness ==
    \E r \in Runs :
        /\ Preprocessed(r)
        /\ \A key \in PreprocessorKeys : handle[r][key].tag # "missing"
        /\ \E i \in 1..Len(handle[r].transactions.items) :
              handle[r].transactions.items[i].Date = PyStr("01/05/2024")

(***************************************************************************)
(* C24: the fallback budget_analysis has one spending_categories entry per *)
(* distinct category of the resolved expense source, the amounts sum to    *)
(* total_expenses, each percentage is amount / total_expenses * 100 (0 for *)
(* a total of 0), monthly_income is the input income, and there is one     *)
(* recommendation, whose potential_savings is 10% of total_expenses.       *)
(***************************************************************************)
RECURSIVE SumAmountsOfEntries(_)
SumAmountsOfEntries(cats) ==
    IF cats = <<>> THEN 0 ELSE Head(cats).amount + SumAmountsOfEntries(Tail(cats))

InputIncome(fd) == IF fd.monthly_income.tag = "missing" THEN 0 ELSE fd.monthly_income.n

BudgetShape(r) ==
    LET b == FallbackBudget(r)
        cats == b.spending_categories
    IN  /\ \A i, j \in 1..Len(cats) : cats[i].category = cats[j].category => i = j
        /\ {cats[i].category : i \in 1..Len(cats)} = ExpectedCategories(input[r])
        /\ SumAmountsOfEntries(cats) = b.total_expenses
        /\ b.monthly_income = InputIncome(input[r])
        /\ Len(b.recommendations) = 1
        /\ b.recommendations[1].potential_savings.n * 10
           = b.total_expenses * b.recommendations[1].potential_savings.d

C24_BudgetFallback ==
    \A r \in Runs :
        Returned(r)
        => /\ BudgetShape(r)
           /\ LET b == FallbackBudget(r)
              IN  \A i \in 1..Len(b.spending_categories) :
                     LET e == b.spending_categories[i]
                     IN  IF b.total_expenses = 0
                         THEN e.percentage = Rat(0, 1)
                         ELSE e.percentage.n * b.total_expenses
                              = e.amount * 100 * e.percentage.d

\* the same with the percentages required only for a positive total
C24_BudgetFallbackPositiveTotal ==
    \A r \in Runs :
        Returned(r)
        => /\ BudgetShape(r)
           /\ LET b == FallbackBudget(r)
              IN  b.total_expenses > 0
                  => \A i \in 1..Len(b.spending_categories) :
                        LET e == b.spending_categories[i]
                        IN  e.percentage.n * b.total_expenses
                            = e.amount * 100 * e.percentage.d

(***************************************************************************)
(* C25: for every input the fallback savings_strategy has                  *)
(* emergency_fund.recommended_amount = 6 * total_expenses, current_amount  *)
(* 0 and status "Not started", two recommendations (Emergency Fund with    *)
(* 10% of total_expenses, then Retirement with 15% of monthly_income) and  *)
(* one automation technique.                                               *)
(***************************************************************************)
RECURSIVE ExpectedTotal(_, _)
ExpectedTotal(fd, cats) ==
    IF cats = {} THEN 0
    ELSE LET c == CHOOSE x \in cats : TRUE
         IN  ExpectedExpenses(fd, c) + ExpectedTotal(fd, cats \ {c})

FallbackSavings(r) == ret[r].value.savings_strategy.body

EntriesAsSet(items) == {<<items[i].k, items[i].v>> : i \in 1..Len(items)}

CategoriesAsSet(cats) == {<<cats[i].category, cats[i].amount>> : i \in 1..Len(cats)}

C26_FallbackAgreesWithPreprocessor ==
    \A r \in Runs :
        Returned(r)
        => LET fd == input[r]
               st == handle[r]
               b == FallbackBudget(r)
           IN  /\ (~HasManual(fd) /\ HasTransactions(fd))
                  => /\ st.category_spending.tag = "dict"
                     /\ CategoriesAsSet(b.spending_categories)
                        = EntriesAsSet(st.category_spending.items)
                     /\ st.total_spending = PyInt(b.total_expenses)
               /\ HasManual(fd)
                  => st.total_manual_spending = PyInt(b.total_expenses)

\* the same, for transactions that all have a Category and of which at
\* least one has an Amount
C26_AgreesOnCompleteTransactions ==
    \A r \in Runs :
        (Returned(r)
         /\ (HasTransactions(input[r])
             => /\ \A i \in 1..Len(input[r].transactions.items) :
                      input[r].transactions.items[i].Category.tag # "missing"
                /\ HasColumn(input[r].transactions.items, "Amount")))
        => LET fd == input[r]
               st == handle[r]
               b == FallbackBudget(r)
           IN  /\ (~HasManual(fd) /\ HasTransactions(fd))
                  => /\ CategoriesAsSet(b.spending_categories)
                        = EntriesAsSet(st.category_spending.items)
                     /\ st.total_spending = PyInt(b.total_expenses)
               /\ HasManual(fd)
                  => st.total_manual_spending = PyInt(b.total_expenses)

(***************************************************************************)
(* C27: parse_json_safely never raises: a value that is not a string is    *)
(* returned unchanged, a string that is valid JSON gives the decoded value *)
(* (null, an empty object and a scalar included), a string that is not     *)
(* valid JSON gives the default value.                                     *)
(***************************************************************************)
\* the value lines 365-368 pass to parse_json_safely for a key: what the
\* run's stage left under it
ParsedValue(r, key) == ctx[r].state[key]

C27_ParseJsonSafelyTotal ==
    \A r \in Runs :
        Took(r, "read")
        => /\ ret[r].ok
           /\ \A key \in KeySet :
                 LET v == ParsedValue(r, key)
                 IN  Truthy(v)
                     => ret[r].value[key]
                        = IF v.tag # "str" THEN v
                          ELSE IF v.s = "null" THEN PyNone
                          ELSE IF v.s = "{}" THEN PyDict(<<>>)
                          ELSE IF v.s = "5" THEN PyInt(5)
                          ELSE IF v.s = "artifact-json" THEN ReasonerArtifact(key, r)
                          ELSE IF v.s = "other-json" THEN ReasonerArtifact("other", r)
                          ELSE defaults[r][key]

\* one call merged a structured value, JSON text that decodes to null and
\* text that is not JSON
C27_Witness ==
    \E r \in Runs :
        /\ Returned(r)
        /\ ParsedValue(r, "budget_analysis").tag = "artifact"
        /\ ParsedValue(r, "savings_strategy").tag = "str"
        /\ ParsedValue(r, "savings_strategy").s = "null"
        /\ ParsedValue(r, "debt_reduction").tag = "str"
        /\ ParsedValue(r, "debt_reduction").s = "not json"

(***************************************************************************)
(* C28: when the fallback aggregates transactions, a transaction without a *)
(* Category is counted under "Uncategorized" and one without an Amount     *)
(* contributes 0, so total_expenses is the sum of the amounts that are     *)
(* present, over all transactions.                                         *)
(***************************************************************************)
RECURSIVE UncategorizedTotal(_, _)
UncategorizedTotal(txns, n) ==
    IF n = 0 THEN 0
    ELSE UncategorizedTotal(txns, n - 1)
         + (IF txns[n].Category.tag = "missing" /\ txns[n].Amount.tag # "missing"
            THEN txns[n].Amount.n ELSE 0)

AggregatesTransactions(fd) == ~Truthy(GetOr(fd.manual_expenses, PyDict(<<>>))) /\ HasTransactions(fd)

C28_UncategorizedAndMissingAmounts ==
    \A r \in Runs :
        (Returned(r) /\ AggregatesTransactions(input[r]))
        => LET txns == input[r].transactions.items
               b == FallbackBudget(r)
               cats == b.spending_categories
           IN  /\ b.total_expenses = AmountsTotal(txns, Len(txns))
               /\ (\E i \in 1..Len(txns) : txns[i].Category.tag = "missing")
                  => \E j \in 1..Len(cats) :
                        /\ cats[j].category = "Uncategorized"
                        /\ cats[j].amount = UncategorizedTotal(txns, Len(txns))

\* two transactions, one without a category and one without an amount
C28_Witness ==
    \E r \in Runs :
        /\ Returned(r) /\ AggregatesTransactions(input[r])
        /\ Len(input[r].transactions.items) = 2
        /\ \E i, j \in 1..2 :
              /\ input[r].transactions.items[i].Category.tag = "missing"
              /\ input[r].transactions.items[i].Amount = PyInt(60)
              /\ input[r].transactions.items[j].Amount.tag = "missing"
        /\ FallbackBudget(r).total_expenses = 60

(***************************************************************************)
(* C29: the fallback never divides by zero: whenever total_expenses is not *)
(* greater than 0 every spending category's percentage is 0, and           *)
(* monthly_payment is computed with the fixed divisor 24 for every debt    *)
(* list, the empty one included.                                           *)
(***************************************************************************)
C29_NoDivisionByZero ==
    \A r \in Runs :
        /\ Done(r) => (ret[r].ok \/ ret[r].error # "ZeroDivisionError")
        /\ Returned(r)
           => /\ FallbackBudget(r).total_expenses <= 0
                 => \A i \in 1..Len(FallbackBudget(r).spending_categories) :
                       FallbackBudget(r).spending_categories[i].percentage = Rat(0, 1)
              /\ \A plan \in {"avalanche", "snowball"} :
                    FallbackDebt(r).payoff_plans[plan].monthly_payment.n * PayoffMonths
                    = FallbackDebt(r).total_debt
                      * FallbackDebt(r).payoff_plans[plan].monthly_payment.d

\* a negative total made of non-zero amounts, with an empty debt list
C29_Witness ==
    \E r \in Runs :
        /\ Returned(r)
        /\ FallbackBudget(r).total_expenses < 0
        /\ Len(FallbackBudget(r).spending_categories) = 2
        /\ \A i \in 1..2 : FallbackBudget(r).spending_categories[i].amount # 0
        /\ input[r].debts = PyList(<<>>)
        /\ FallbackDebt(r).payoff_plans.avalanche.monthly_payment = Rat(0, 1)

(***************************************************************************)
(* C30: in the UI flow, when the CSV-upload option is selected and no      *)
(* valid transaction file has been loaded, pressing the analyze button     *)
(* reports an error and stops: analyze_finances is never called with both  *)
(* expense sources absent.                                                 *)
(***************************************************************************)
CsvWithoutFile(r) ==
    /\ ui[r].tag = "ui"
    /\ ui[r].expense_option = CsvLabel
    /\ ~ui[r].file_loaded

C30_MissingFileStopsAnalysis ==
    \A r \in Runs :
        CsvWithoutFile(r)
        => /\ pc[r] = "stopped"
           /\ input[r] = PyNone
           /\ hist[r] = <<>>

====
